---- MODULE Spec2Model ----
(***************************************************************************)
(* RCA_CompetitorAnalysis.py: the rate-limited StorTrack client, the gap   *)
(* analysis, the API backfill loop of main(), the combination of DB and    *)
(* API records and the store adjustment of the summary report.             *)
(*                                                                         *)
(* Time is in whole seconds.  Calendar days are day numbers counted from   *)
(* the day before the analysis window can start; strftime/strptime turn    *)
(* them into <<year, month, day>> and back.  Percentages of the adjustment *)
(* are in thousandths (0.005 is 5, 0.01 is 10, 0.02 is 20).                *)
(***************************************************************************)
EXTENDS Integers, Sequences, FiniteSets, TLC

\* ---------------------------------------------------------------- bounds
\* _RATE_LIMIT_PER_HOUR is 3000 in the source (line 35); the model runs the
\* same limiter with a small limit so that the limit is reached.
RATE_LIMIT_PER_HOUR == 2
\* fetch_historical_data calls started in one behaviour of the client
MaxCalls == 2
\* steps of half an hour by which the environment advances the clock
MaxTicks == 1
\* logins the service refuses before it hands out a token
MaxLoginFailures == 1

\* calendar days 1 .. MaxDay are modelled
MaxDay == 3
\* day DaysBeforeNewYear is 2024-12-31 and the next day is 2025-01-01 (the
\* source starts the window on 2024-12-01; the model starts it nearer to the
\* year boundary so that short windows cross it)
DaysBeforeNewYear == 2
\* calendar days 1 .. MaxGapDay of the gap analysis taken by itself
MaxGapDay == 5
\* length of the list of store numbers typed at the "Stores to fetch" prompt
MaxSelLen == 2

\* ------------------------------------------------------ program constants
max_retries == 3
WindowSeconds == 3600
Backoff404 == 2
Backoff5xx == 5
TickStep == WindowSeconds \div 2

None == "None"

VARIABLES
  \* --- StorTrackAPIClient and the module-level rate limiter
  clock,               \* time.time()
  rate_window_start,   \* _rate_window_start
  rate_call_count,     \* _rate_call_count
  token,               \* self._token
  cpc,                 \* position inside fetch_historical_data
  attempt,             \* loop variable of "for attempt in range(max_retries)"
  result,              \* value returned by the last call
  requestLog,          \* start times of the POSTs to historicaldata
  loginCount,          \* POSTs to authtoken
  callSent,            \* POSTs to historicaldata of the current call
  callsStarted,        \* calls of fetch_historical_data so far
  callClean,           \* the current call saw only transient failures
  ticks,               \* steps of the environment's clock so far
  resp,                \* the response of the current iteration
  headers,             \* the authorization header of the current iteration
  callWaits            \* times lines 151-158 ran in the current call

VARIABLES
  \* --- main(): gap analysis, approval, backfill, combination
  rpc,                 \* position inside main()
  from_date, to_date,  \* the analysis window
  dates_by_store,      \* store_id -> set of dates with DB data
  gaps_by_store,       \* result of analyze_date_gaps
  api_store_ids,       \* first component returned by display_gap_analysis
  api_days,            \* second component returned by display_gap_analysis
  store_pos,           \* index into api_store_ids of the backfill loop
  ranges,              \* ranges of the store the loop is at
  range_pos,           \* index into ranges
  api_records,         \* parsed records fetched so far
  all_records,         \* db_records + api_records
  fetchLog,            \* calls of api.fetch_historical_data: arguments, outcome
  stdout,              \* lines printed by the backfill loop
  confirm_cost         \* the amount of the confirmation prompt answered "yes"

runVars == <<rpc, from_date, to_date, dates_by_store, gaps_by_store, api_store_ids,
             api_days, store_pos, ranges, range_pos, api_records, all_records,
             fetchLog, stdout, confirm_cost>>

clientVars == <<clock, rate_window_start, rate_call_count, token, cpc, attempt,
                result, requestLog, loginCount, callSent, callsStarted, callClean, ticks,
                resp, headers, callWaits>>

VARIABLES
  \* --- calculate_store_adjustment and the adjustments of generate_csv2_report
  spc,                 \* position of the scoring
  rankings,            \* store_id -> {category: ranking}
  adjustment_factors,  \* factor name -> flat adjustment
  store_adjustments,   \* store_id -> adjustment used in the report
  self_adjustment      \* calculate_store_adjustment(subject, subject, factors)

scoreVars == <<spc, rankings, adjustment_factors, store_adjustments, self_adjustment>>

VARIABLES
  \* --- lookup_store_metadata and collect_store_rankings
  kpc,                 \* position inside the two functions
  store_metadata,      \* store_id -> square footage and year built
  meta_pos,            \* index into selected_stores of the loops

  \* --- the two adapters applied to one price pair
  apc,                 \* the adapters that have not run yet
  regular_rate,        \* the regular price of the row or price entry
  online_rate,         \* its online price
  adapted,             \* the records the adapters made of it

  \* --- RatesDBManager.get_trailing_12_month_rates
  dpc,                 \* position inside the function
  tables_to_query,     \* the tables, in the order of the loop
  table_rows,          \* table -> the rows its query selects
  table_pos,           \* index into tables_to_query
  reader_rates,        \* the function's rates_by_store
  reader_dates,        \* the function's dates_by_store
  failed_tables        \* tables whose query raised

rankVars == <<kpc, store_metadata, meta_pos>>
adaptVars == <<apc, regular_rate, online_rate, adapted>>
readVars == <<dpc, tables_to_query, table_rows, table_pos, reader_rates, reader_dates,
              failed_tables>>

VARIABLES
  \* --- generate_csv2_report
  gpc,                 \* position inside the function
  records,             \* the records handed to the report
  grouped,             \* (size, tag) -> store_id -> records of the last 12 months
  csv_rows             \* the rows written to the summary file

reportVars == <<gpc, records, grouped, csv_rows>>

vars == <<clientVars, runVars, scoreVars, rankVars, adaptVars, readVars, reportVars>>
nonClientVars == <<runVars, scoreVars, rankVars, adaptVars, readVars, reportVars>>
nonRunVars == <<clientVars, scoreVars, rankVars, adaptVars, readVars, reportVars>>
nonScoreVars == <<clientVars, runVars, rankVars, adaptVars, readVars, reportVars>>
nonRankVars == <<clientVars, runVars, adaptVars, readVars, reportVars>>
nonAdaptVars == <<clientVars, runVars, scoreVars, rankVars, readVars, reportVars>>
nonReadVars == <<clientVars, runVars, scoreVars, rankVars, adaptVars, reportVars>>
nonReportVars == <<clientVars, runVars, scoreVars, rankVars, adaptVars, readVars>>

\* ================================================================ client
\* range(max_retries): the loop body runs for attempt = 0 .. max_retries-1
InRange(a) == a < max_retries

\* "if attempt < max_retries - 1: ... continue  else: return None"
RetriesLeft(a) == a < max_retries - 1

NextAttemptStuck(a) == a
\* the for statement advances attempt by one on every continue
NextAttempt(a) == a + 1

SleepSkipped(now, start) == now
\* ---- time.sleep(s); the clock is read again afterwards
SleepUntilWindowEnd(now, start) ==
  LET elapsed == now - start
  IN  IF elapsed < WindowSeconds THEN now + (WindowSeconds - elapsed) ELSE now

LimitReachedLate(count) == count > RATE_LIMIT_PER_HOUR
\* line 150
LimitReached(count) == count >= RATE_LIMIT_PER_HOUR

per_call_rate_call_count(current) == 0
\* line 137: the counter of the module, whatever call it is read in
global_rate_call_count(current) == current

BackoffFlat(base, a) == base
\* lines 195, 203, 216, 236: base * (attempt + 1)
ProgressiveBackoff(base, a) == base * (a + 1)

\* self._token before a login succeeded, and a header dict without authorization
NoToken == <<>>
\* no response object: before the POST and when the POST raised
NoResponse == [status |-> 0, text |-> <<>>]

HasTokenNever(t) == FALSE
\* line 53: "if self._token"
HasToken(t) == t # NoToken

\* ---- texts are sequences of characters
\* str.lower() on the letters of A-Z
ToLower(c) ==
  CASE c = "A" -> "a" [] c = "B" -> "b" [] c = "C" -> "c" [] c = "D" -> "d"
    [] c = "E" -> "e" [] c = "F" -> "f" [] c = "G" -> "g" [] c = "H" -> "h"
    [] c = "I" -> "i" [] c = "J" -> "j" [] c = "K" -> "k" [] c = "L" -> "l"
    [] c = "M" -> "m" [] c = "N" -> "n" [] c = "O" -> "o" [] c = "P" -> "p"
    [] c = "Q" -> "q" [] c = "R" -> "r" [] c = "S" -> "s" [] c = "T" -> "t"
    [] c = "U" -> "u" [] c = "V" -> "v" [] c = "W" -> "w" [] c = "X" -> "x"
    [] c = "Y" -> "y" [] c = "Z" -> "z" [] OTHER -> c

Lower(text) == [i \in DOMAIN text |-> ToLower(text[i])]

\* "pattern in text"
Contains(text, pattern) ==
  \E i \in 0 .. Len(text) - Len(pattern) :
     \A j \in 1 .. Len(pattern) : text[i + j] = pattern[j]

SigSqlServer == <<"s", "q", "l", " ", "s", "e", "r", "v", "e", "r">>
SigNetworkRelated ==
  <<"n", "e", "t", "w", "o", "r", "k", "-", "r", "e", "l", "a", "t", "e", "d">>
SigTimeout == <<"t", "i", "m", "e", "o", "u", "t">>

IsSqlTimeoutCaseSensitive(text) ==
  \/ Contains(text, SigSqlServer)
  \/ Contains(text, SigNetworkRelated)
  \/ Contains(text, SigTimeout)

\* lines 214-215
IsSqlTimeout(text) ==
  LET body_text == Lower(text)
  IN  \/ Contains(body_text, SigSqlServer)
      \/ Contains(body_text, SigNetworkRelated)
      \/ Contains(body_text, SigTimeout)

BranchRetrying4xx(status, text) ==
  CASE status = 200 -> "200"
    [] status = 429 -> "429"
    [] status >= 400 /\ status < 500 /\ status # 400 -> "404"
    [] status \in {500, 503} -> "5xx"
    [] status = 400 /\ IsSqlTimeout(text) -> "sql"
    [] status = 400 -> "400"
    [] OTHER -> "other"

\* the if/elif chain of lines 169-231: the branch a response is handled by
Branch(status, text) ==
  CASE status = 200 -> "200"
    [] status = 429 -> "429"
    [] status = 404 -> "404"
    [] status \in {500, 503} -> "5xx"
    [] status = 400 /\ IsSqlTimeout(text) -> "sql"
    [] status = 400 -> "400"
    [] OTHER -> "other"

\* bodies of the HTTP 400 answers of the service
BodySqlServer == <<"S", "Q", "L", " ", "S", "e", "r", "v", "e", "r">>
BodyNetworkRelated ==
  <<"A", " ", "N", "e", "t", "w", "o", "r", "k", "-", "R", "e", "l", "a", "t", "e", "d">>
BodyTimeout == <<"T", "I", "M", "E", "O", "U", "T", ".">>
BodyTimeOut == <<"t", "i", "m", "e", " ", "o", "u", "t">>
BodyBadStore == <<"B", "a", "d", " ", "i", "d">>
Bodies400 == {BodySqlServer, BodyNetworkRelated, BodyTimeout, BodyTimeOut, BodyBadStore}

\* the answers of the service to a POST to historicaldata
Responses ==
  {[status |-> s, text |-> <<>>] : s \in {200, 429, 404, 500, 503, 401, 403}}
    \cup {[status |-> 400, text |-> b] : b \in Bodies400}

ResponsesOf(branch) == {r \in Responses : Branch(r.status, r.text) = branch}
Answers200 == ResponsesOf("200")
Answers429 == ResponsesOf("429")
Answers404 == ResponsesOf("404")
AnswersBackoff5 == ResponsesOf("5xx") \cup ResponsesOf("sql")
AnswersPermanent == ResponsesOf("400") \cup ResponsesOf("other")

ClientStart ==
  /\ clock = 0
  /\ rate_window_start = 0
  /\ rate_call_count = 0
  /\ token = NoToken
  /\ cpc = "idle"
  /\ attempt = 0
  /\ result = None
  /\ requestLog = <<>>
  /\ loginCount = 0
  /\ callSent = 0
  /\ callsStarted = 0
  /\ callClean = TRUE
  /\ ticks = 0
  /\ resp = NoResponse
  /\ headers = NoToken
  /\ callWaits = 0

\* the environment: half an hour passes between the import of the module
\* (line 36) and the first fetch (the prompts of main are answered meanwhile)
Tick ==
  /\ cpc = "idle"
  /\ callsStarted = 0
  /\ ticks < MaxTicks
  /\ ticks' = ticks + 1
  /\ clock' = clock + TickStep
  /\ UNCHANGED <<rate_window_start, rate_call_count, token, cpc, attempt, result,
                 requestLog, loginCount, callSent, callsStarted, callClean>>
  /\ UNCHANGED <<resp, headers, callWaits>>
  /\ UNCHANGED nonClientVars

\* a caller enters fetch_historical_data
CallFetch ==
  /\ cpc = "idle"
  /\ callsStarted < MaxCalls
  /\ callsStarted' = callsStarted + 1
  /\ attempt' = 0
  /\ callSent' = 0
  /\ callClean' = TRUE
  /\ result' = "pending"
  /\ cpc' = "loop"
  /\ rate_call_count' = global_rate_call_count(rate_call_count)
  /\ resp' = NoResponse
  /\ headers' = NoToken
  /\ callWaits' = 0
  /\ UNCHANGED <<clock, rate_window_start, token, requestLog, loginCount>>
  /\ UNCHANGED <<ticks, nonClientVars>>

\* lines 148-158 (loop head and rate limiting) and line 241 (loop exhausted)
RateCheck ==
  /\ cpc = "loop"
  /\ IF ~InRange(attempt)
       THEN /\ result' = None
            /\ cpc' = "idle"
            /\ UNCHANGED <<clock, rate_window_start, rate_call_count, resp, callWaits>>
       ELSE /\ cpc' = "auth"
            /\ resp' = NoResponse
            /\ UNCHANGED result
            /\ IF LimitReached(rate_call_count)
                 THEN /\ clock' = SleepUntilWindowEnd(clock, rate_window_start)
                      /\ rate_window_start' = clock'
                      /\ rate_call_count' = 0
                      /\ callWaits' = callWaits + 1
                 ELSE UNCHANGED <<clock, rate_window_start, rate_call_count, callWaits>>
  /\ UNCHANGED <<token, attempt, requestLog, loginCount, callSent, callsStarted, callClean>>
  /\ UNCHANGED <<headers, ticks, nonClientVars>>

\* lines 160-163 with _get_auth_token (lines 51-71)
GetAuthToken ==
  /\ cpc = "auth"
  /\ IF HasToken(token)
       THEN UNCHANGED <<token, loginCount>>
       ELSE /\ loginCount' = loginCount + 1
            /\ \E ok \in (IF loginCount < MaxLoginFailures THEN BOOLEAN ELSE {TRUE}) :
                 token' = IF ok THEN <<"Bearer", loginCount'>> ELSE NoToken
  /\ headers' = token'
  /\ cpc' = "post"
  /\ UNCHANGED <<clock, rate_window_start, rate_call_count, attempt, result,
                 requestLog, callSent, callsStarted, callClean>>
  /\ UNCHANGED <<resp, callWaits, ticks, nonClientVars>>

\* the request is started (line 166)
Started == /\ requestLog' = Append(requestLog, clock)
           /\ callSent' = callSent + 1

\* "continue" after a sleep of s seconds, or "return None" (lines 185-239)
RetryOrFail(now, s) ==
  IF RetriesLeft(attempt)
    THEN /\ clock' = now + s
         /\ attempt' = NextAttempt(attempt)
         /\ cpc' = "loop"
         /\ UNCHANGED result
    ELSE /\ clock' = now
         /\ result' = None
         /\ cpc' = "idle"
         /\ UNCHANGED attempt

\* lines 166-171
Respond200 ==
  /\ cpc = "post"
  /\ Started
  /\ resp' \in Answers200
  /\ rate_call_count' = rate_call_count + 1
  /\ result' = "data"
  /\ callClean' = FALSE
  /\ cpc' = "idle"
  /\ UNCHANGED <<clock, rate_window_start, token, attempt, loginCount, callsStarted>>
  /\ UNCHANGED <<headers, callWaits, ticks, nonClientVars>>

\* lines 174-189
Respond429 ==
  /\ cpc = "post"
  /\ Started
  /\ resp' \in Answers429
  /\ LET now == SleepUntilWindowEnd(clock, rate_window_start)
     IN  /\ rate_window_start' = now
         /\ rate_call_count' = 0
         /\ RetryOrFail(now, 0)
  /\ UNCHANGED <<token, loginCount, callsStarted, callClean>>
  /\ UNCHANGED <<headers, callWaits, ticks, nonClientVars>>

\* lines 192-199
Respond404 ==
  /\ cpc = "post"
  /\ Started
  /\ resp' \in Answers404
  /\ rate_call_count' = rate_call_count + 1
  /\ RetryOrFail(clock, ProgressiveBackoff(Backoff404, attempt))
  /\ UNCHANGED <<rate_window_start, token, loginCount, callsStarted, callClean>>
  /\ UNCHANGED <<headers, callWaits, ticks, nonClientVars>>

\* lines 202-210 (500, 503) and lines 213-223 (400 with a SQL timeout text)
Respond5xxOrSqlTimeout ==
  /\ cpc = "post"
  /\ Started
  /\ resp' \in AnswersBackoff5
  /\ rate_call_count' = rate_call_count + 1
  /\ RetryOrFail(clock, ProgressiveBackoff(Backoff5xx, attempt))
  /\ UNCHANGED <<rate_window_start, token, loginCount, callsStarted, callClean>>
  /\ UNCHANGED <<headers, callWaits, ticks, nonClientVars>>

\* lines 224-231: any other 400 and any other status
RespondPermanent ==
  /\ cpc = "post"
  /\ Started
  /\ resp' \in AnswersPermanent
  /\ rate_call_count' = rate_call_count + 1
  /\ result' = None
  /\ callClean' = FALSE
  /\ cpc' = "idle"
  /\ UNCHANGED <<clock, rate_window_start, token, attempt, loginCount, callsStarted>>
  /\ UNCHANGED <<headers, callWaits, ticks, nonClientVars>>

\* lines 233-239: the POST raises; line 167 is not reached
TransportException ==
  /\ cpc = "post"
  /\ Started
  /\ RetryOrFail(clock, ProgressiveBackoff(Backoff404, attempt))
  /\ UNCHANGED <<rate_window_start, rate_call_count, token, loginCount, callsStarted, callClean>>
  /\ UNCHANGED <<resp, headers, callWaits, ticks, nonClientVars>>

ClientNext ==
  \/ Tick
  \/ CallFetch
  \/ RateCheck
  \/ GetAuthToken
  \/ Respond200
  \/ Respond429
  \/ Respond404
  \/ Respond5xxOrSqlTimeout
  \/ RespondPermanent
  \/ TransportException


\* ================================================= calendar and conversions
Days == 1 .. MaxDay

\* d.get(key, default)
DictGet(d, key, default) == IF key \in DOMAIN d THEN d[key] ELSE default

\* the empty text ''
EmptyText == <<>>

\* d.strftime('%Y-%m-%d'), as <<year, month, day of month>>
Strftime(d) ==
  IF d <= DaysBeforeNewYear
    THEN <<2024, 12, 31 - DaysBeforeNewYear + d>>
    ELSE <<2025, 1, d - DaysBeforeNewYear>>

\* the day number of a 'YYYY-MM-DD' text
Strptime(t) ==
  IF t[1] = 2024 THEN t[3] - (31 - DaysBeforeNewYear) ELSE t[3] + DaysBeforeNewYear

\* d.year
Year(d) == Strftime(d)[1]

\* ============================================================ gap analysis
\* lines 1432-1436: "while current <= to_date: all_dates.add(current)"
RECURSIVE AllDatesExclusive(_, _, _)
AllDatesExclusive(current, to, acc) ==
  IF current < to THEN AllDatesExclusive(current + 1, to, acc \cup {current}) ELSE acc

RECURSIVE AllDates(_, _, _)
AllDates(current, to, acc) ==
  IF current <= to THEN AllDates(current + 1, to, acc \cup {current}) ELSE acc

Min(S) == CHOOSE x \in S : \A y \in S : x <= y

\* sorted(S) for a set of dates
RECURSIVE Sorted(_)
Sorted(S) == IF S = {} THEN <<>> ELSE <<Min(S)>> \o Sorted(S \ {Min(S)})

\* lines 1418-1444
analyze_date_gaps(dbs, from, to) ==
  LET all_dates == AllDates(from, to, {})
  IN  [store_id \in DOMAIN dbs |-> Sorted(all_dates \ dbs[store_id])]

\* lines 2621-2626 (and 1496-1501): the dates after the first one, in order
RECURSIVE GroupLoopMerging(_, _, _, _, _)
GroupLoopMerging(missing, i, start, end, acc) ==
  IF i > Len(missing) THEN Append(acc, <<start, end>>)
  ELSE IF missing[i] - end <= 2
         THEN GroupLoopMerging(missing, i + 1, start, missing[i], acc)
         ELSE GroupLoopMerging(missing, i + 1, missing[i], missing[i],
                               Append(acc, <<start, end>>))

RECURSIVE GroupLoop(_, _, _, _, _)
GroupLoop(missing, i, start, end, acc) ==
  IF i > Len(missing) THEN Append(acc, <<start, end>>)
  ELSE IF missing[i] - end = 1
         THEN GroupLoop(missing, i + 1, start, missing[i], acc)
         ELSE GroupLoop(missing, i + 1, missing[i], missing[i],
                        Append(acc, <<start, end>>))

\* lines 2617-2627 (and 1493-1502), for a non-empty list of missing dates
GroupRanges(missing) == GroupLoop(missing, 2, missing[1], missing[1], <<>>)

\* ================================================================== main()
\* the stores chosen for the analysis, subject first (get_store_selection)
selected_stores == <<1, 2>>
Stores == {selected_stores[i] : i \in DOMAIN selected_stores}

\* rows returned by get_trailing_12_month_rates (lines 384-412): one 10x10
\* "Unit" row for every date the store has data for, ordered by date
rates_by_store ==
  [sid \in Stores |->
     LET ds == Sorted(dates_by_store[sid])
     IN  [i \in DOMAIN ds |->
            [store_id |-> sid, spacetype |-> "Unit", size |-> "10x10",
             date_collected |-> Strftime(ds[i])]]]

\* lines 1819-1889, the fields of the merge key and the source
RECURSIVE ConvertStores(_, _)
ConvertStores(rbs, i) ==
  IF i > Len(selected_stores) THEN <<>>
  ELSE LET sid == selected_stores[i]
           rates == rbs[sid]
       IN  [k \in DOMAIN rates |->
              [store_id |-> sid, unit_type |-> rates[k].spacetype,
               size |-> rates[k].size, date |-> rates[k].date_collected,
               source |-> "Database"]]
           \o ConvertStores(rbs, i + 1)

convert_db_rates_to_records(rbs) == ConvertStores(rbs, 1)

\* lines 1601-1701 for one store payload with one unit type; prices is the
\* list of its price entries
parse_api_rate_data(storeID, prices) ==
  [k \in DOMAIN prices |->
     [store_id |-> storeID, unit_type |-> "Unit", size |-> "10x10",
      date |-> DictGet(prices[k], "date", EmptyText), source |-> "API"]]

\* lines 1470-1486: the selected stores that have missing dates, in order
RECURSIVE StoresWithGaps(_, _)
StoresWithGaps(gaps, i) ==
  IF i > Len(selected_stores) THEN <<>>
  ELSE LET sid == selected_stores[i]
           missing == IF sid \in DOMAIN gaps THEN gaps[sid] ELSE <<>>
       IN  (IF missing # <<>> THEN <<sid>> ELSE <<>>) \o StoresWithGaps(gaps, i + 1)

RECURSIVE SumDays(_, _)
SumDays(ids, gaps) ==
  IF ids = <<>> THEN 0 ELSE Len(gaps[Head(ids)]) + SumDays(Tail(ids), gaps)

\* lines 1572-1576: the valid indices of the typed list, in the typed order
RECURSIVE SelectedApiStores(_, _)
SelectedApiStores(sel_indices, swg) ==
  IF sel_indices = <<>> THEN <<>>
  ELSE (IF 0 <= Head(sel_indices) /\ Head(sel_indices) < Len(swg)
          THEN <<swg[Head(sel_indices) + 1]>> ELSE <<>>)
       \o SelectedApiStores(Tail(sel_indices), swg)

\* line 1463, in cents
cost_per_year == 1250

\* lines 1522-1525 and 1580-1585: the years of the missing dates of the stores
YearsNeeded(ids, gaps) ==
  UNION {{Year(gaps[ids[i]][k]) : k \in DOMAIN gaps[ids[i]]} : i \in DOMAIN ids}

\* lines 1527 and 1586: the years times the length of the list of stores
EstimatedCost(ids, gaps) ==
  Cardinality(YearsNeeded(ids, gaps)) * Len(ids) * cost_per_year

\* lines 2638-2641: a falsy api_data is skipped; the loops go on either way
LoopGoesOnAfterAbort(api_ok) == api_ok
LoopGoesOnAfter(api_ok) == TRUE

RunIdle ==
  /\ rpc = "off"
  /\ from_date = 1
  /\ to_date = 1
  /\ dates_by_store = [sid \in Stores |-> {}]
  /\ gaps_by_store = [sid \in Stores |-> <<>>]
  /\ api_store_ids = <<>>
  /\ api_days = 0
  /\ store_pos = 1
  /\ ranges = <<>>
  /\ range_pos = 1
  /\ api_records = <<>>
  /\ all_records = <<>>
  /\ fetchLog = <<>>
  /\ stdout = <<>>
  /\ confirm_cost = 0

\* main() after db.get_trailing_12_month_rates (line 2580): the window starts
\* on day 1 and ends today; the rows lie in the window (lines 372-373)
RunInit ==
  /\ rpc = "analyze"
  /\ from_date = 1
  /\ to_date \in Days
  /\ dates_by_store \in [Stores -> SUBSET (from_date .. to_date)]
  /\ gaps_by_store = [sid \in Stores |-> <<>>]
  /\ api_store_ids = <<>>
  /\ api_days = 0
  /\ store_pos = 1
  /\ ranges = <<>>
  /\ range_pos = 1
  /\ api_records = <<>>
  /\ all_records = <<>>
  /\ fetchLog = <<>>
  /\ stdout = <<>>
  /\ confirm_cost = 0

\* line 2586
AnalyzeDateGaps ==
  /\ rpc = "analyze"
  /\ gaps_by_store' = analyze_date_gaps(dates_by_store, from_date, to_date)
  /\ rpc' = "display"
  /\ UNCHANGED <<from_date, to_date, dates_by_store, api_store_ids, api_days, store_pos,
                 ranges, range_pos, api_records, all_records, fetchLog, stdout, confirm_cost>>
  /\ UNCHANGED nonRunVars

Decided(ids, days, cost) ==
  /\ api_store_ids' = ids
  /\ api_days' = days
  /\ confirm_cost' = cost
  /\ rpc' = "backfill"
  /\ UNCHANGED <<from_date, to_date, dates_by_store, gaps_by_store, store_pos,
                 ranges, range_pos, api_records, all_records, fetchLog, stdout>>
  /\ UNCHANGED nonRunVars

\* line 2589, display_gap_analysis: no gaps (1516-1518), [N] (1546-1548) or a
\* confirmation other than "yes" (1554-1556, 1590-1592)
DisplayDeclined ==
  /\ rpc = "display"
  /\ Decided(<<>>, 0, 0)

\* display_gap_analysis: [Y] and "yes" (lines 1550-1553)
DisplayApproveAll ==
  /\ rpc = "display"
  /\ LET swg == StoresWithGaps(gaps_by_store, 1)
     IN  /\ swg # <<>>
         /\ Decided(swg, SumDays(swg, gaps_by_store), EstimatedCost(swg, gaps_by_store))

\* display_gap_analysis: [S], a list of numbers and "yes" (lines 1558-1589)
DisplayApproveSelected ==
  /\ rpc = "display"
  /\ LET swg == StoresWithGaps(gaps_by_store, 1)
     IN  /\ swg # <<>>
         /\ \E n \in 1 .. MaxSelLen :
              \E typed \in [1 .. n -> 0 .. Len(selected_stores) + 1] :
                 LET sel_indices == [k \in 1 .. n |-> typed[k] - 1]
                     ids == SelectedApiStores(sel_indices, swg)
                 IN  /\ ids # <<>>
                     /\ Decided(ids, SumDays(ids, gaps_by_store),
                                EstimatedCost(ids, gaps_by_store))

\* lines 2608-2627: the store loop; a store without missing dates is passed
\* over, otherwise its missing dates are grouped into ranges
BackfillStore ==
  /\ rpc = "backfill"
  /\ IF api_store_ids # <<>> /\ api_days > 0 /\ store_pos <= Len(api_store_ids)
       THEN LET store_id == api_store_ids[store_pos]
                missing_dates == IF store_id \in DOMAIN gaps_by_store
                                   THEN gaps_by_store[store_id] ELSE <<>>
            IN  IF missing_dates = <<>>
                  THEN /\ store_pos' = store_pos + 1
                       /\ UNCHANGED <<rpc, ranges, range_pos>>
                  ELSE /\ ranges' = GroupRanges(missing_dates)
                       /\ range_pos' = 1
                       /\ rpc' = "fetch"
                       /\ UNCHANGED store_pos
       ELSE /\ rpc' = "combine"
            /\ UNCHANGED <<store_pos, ranges, range_pos>>
  /\ UNCHANGED <<from_date, to_date, dates_by_store, gaps_by_store, api_store_ids,
                 api_days, api_records, all_records, fetchLog, stdout, confirm_cost>>
  /\ UNCHANGED nonRunVars

\* the for statements of lines 2611 and 2630 after one range
AfterRange(api_ok) ==
  IF ~LoopGoesOnAfter(api_ok)
    THEN /\ rpc' = "combine"
         /\ UNCHANGED <<store_pos, range_pos>>
    ELSE IF range_pos < Len(ranges)
           THEN /\ range_pos' = range_pos + 1
                /\ UNCHANGED <<rpc, store_pos>>
           ELSE /\ store_pos' = store_pos + 1
                /\ rpc' = "backfill"
                /\ UNCHANGED range_pos

FetchArgs ==
  [store_id |-> api_store_ids[store_pos],
   from |-> Strftime(ranges[range_pos][1]),
   to |-> Strftime(ranges[range_pos][2])]

\* a price entry of a response, with the 'date' key or without it
PriceEntry(day) == [date |-> Strftime(day), regular |-> 100]
PriceEntryUndated == [regular |-> 100]

\* price entries the service returns for a request: one for every requested
\* day, or one for the first day and one without a date
PriceLists(range) ==
  {[k \in 1 .. (range[2] - range[1] + 1) |-> PriceEntry(range[1] + k - 1)],
   <<PriceEntry(range[1]), PriceEntryUndated>>}

\* lines 2630-2641 when fetch_historical_data returns a non-empty list
FetchRangeData ==
  /\ rpc = "fetch"
  /\ \E prices \in PriceLists(ranges[range_pos]) :
       LET parsed_records == parse_api_rate_data(FetchArgs.store_id, prices)
       IN  /\ api_records' = api_records \o parsed_records
           /\ stdout' = stdout \o
                <<[kind |-> "Fetching", store_id |-> FetchArgs.store_id,
                   from |-> FetchArgs.from, to |-> FetchArgs.to],
                  [kind |-> "Retrieved", count |-> Len(parsed_records)]>>
  /\ fetchLog' = Append(fetchLog, [args |-> FetchArgs, ok |-> TRUE])
  /\ AfterRange(TRUE)
  /\ UNCHANGED <<from_date, to_date, dates_by_store, gaps_by_store, api_store_ids,
                 api_days, ranges, all_records, confirm_cost>>
  /\ UNCHANGED nonRunVars

\* lines 2630-2641 when fetch_historical_data returns None
FetchRangeFailed ==
  /\ rpc = "fetch"
  /\ stdout' = Append(stdout,
                [kind |-> "Fetching", store_id |-> FetchArgs.store_id,
                 from |-> FetchArgs.from, to |-> FetchArgs.to])
  /\ fetchLog' = Append(fetchLog, [args |-> FetchArgs, ok |-> FALSE])
  /\ AfterRange(FALSE)
  /\ UNCHANGED <<from_date, to_date, dates_by_store, gaps_by_store, api_store_ids,
                 api_days, ranges, api_records, all_records, confirm_cost>>
  /\ UNCHANGED nonRunVars

\* lines 2643-2650
CombineRecords ==
  /\ rpc = "combine"
  /\ all_records' = convert_db_rates_to_records(rates_by_store) \o api_records
  /\ stdout' = IF api_store_ids # <<>> /\ api_days > 0
                 THEN Append(stdout, [kind |-> "Total", count |-> Len(api_records)])
                 ELSE stdout
  /\ rpc' = "done"
  /\ UNCHANGED <<from_date, to_date, dates_by_store, gaps_by_store, api_store_ids,
                 api_days, store_pos, ranges, range_pos, api_records, fetchLog, confirm_cost>>
  /\ UNCHANGED nonRunVars

RunNext ==
  \/ AnalyzeDateGaps
  \/ DisplayDeclined
  \/ DisplayApproveAll
  \/ DisplayApproveSelected
  \/ BackfillStore
  \/ FetchRangeData
  \/ FetchRangeFailed
  \/ CombineRecords

ScoreIdle ==
  /\ spc = "off"
  /\ rankings = <<>>
  /\ adjustment_factors = <<>>
  /\ store_adjustments = <<>>
  /\ self_adjustment = 0

RankIdle ==
  /\ kpc = "off"
  /\ store_metadata = <<>>
  /\ meta_pos = 1

AdaptIdle ==
  /\ apc = {}
  /\ regular_rate = <<>>
  /\ online_rate = <<>>
  /\ adapted = <<>>

ReadIdle ==
  /\ dpc = "off"
  /\ tables_to_query = <<>>
  /\ table_rows = <<>>
  /\ table_pos = 1
  /\ reader_rates = <<>>
  /\ reader_dates = <<>>
  /\ failed_tables = {}

ReportIdle ==
  /\ gpc = "off"
  /\ records = <<>>
  /\ grouped = <<>>
  /\ csv_rows = <<>>

\* the stages of main() a specification does not follow
StagesIdle == RankIdle /\ AdaptIdle /\ ReadIdle /\ ReportIdle

ClientInit == ClientStart /\ RunIdle /\ ScoreIdle /\ StagesIdle
ClientSpec == ClientInit /\ [][ClientNext]_vars

RunSpecInit == RunInit /\ ClientStart /\ ScoreIdle /\ StagesIdle
RunSpec == RunSpecInit /\ [][RunNext]_vars

\* ------------------------------------- the gap analysis taken by itself
GapDays == 1 .. MaxGapDay

\* any window and any coverage calendar, also with dates outside the window
GapInit ==
  /\ rpc = "gap_analyze"
  /\ from_date \in GapDays
  /\ to_date \in GapDays
  /\ dates_by_store \in [Stores -> SUBSET GapDays]
  /\ gaps_by_store = [sid \in Stores |-> <<>>]
  /\ api_store_ids = <<>>
  /\ api_days = 0
  /\ store_pos = 1
  /\ ranges = <<>>
  /\ range_pos = 1
  /\ api_records = <<>>
  /\ all_records = <<>>
  /\ fetchLog = <<>>
  /\ stdout = <<>>
  /\ confirm_cost = 0

\* analyze_date_gaps(dates_by_store, from_date, to_date)
GapAnalyze ==
  /\ rpc = "gap_analyze"
  /\ gaps_by_store' = analyze_date_gaps(dates_by_store, from_date, to_date)
  /\ rpc' = "gap_group"
  /\ UNCHANGED <<from_date, to_date, dates_by_store, api_store_ids, api_days, store_pos,
                 ranges, range_pos, api_records, all_records, fetchLog, stdout, confirm_cost>>
  /\ UNCHANGED nonRunVars

\* the range grouping applied to the missing dates of one store
GapGroup ==
  /\ rpc = "gap_group"
  /\ \E sid \in Stores :
       /\ gaps_by_store[sid] # <<>>
       /\ api_store_ids' = <<sid>>
       /\ ranges' = GroupRanges(gaps_by_store[sid])
  /\ rpc' = "gap_grouped"
  /\ UNCHANGED <<from_date, to_date, dates_by_store, gaps_by_store, api_days, store_pos,
                 range_pos, api_records, all_records, fetchLog, stdout, confirm_cost>>
  /\ UNCHANGED nonRunVars

GapNext ==
  \/ GapAnalyze
  \/ GapGroup

GapSpecInit == GapInit /\ ClientStart /\ ScoreIdle /\ StagesIdle
GapSpec == GapSpecInit /\ [][GapNext]_vars

\* ------------------------------------------------------------- C3, C4
SeqToSet(q) == {q[i] : i \in DOMAIN q}
StrictlyAscending(q) == \A i \in DOMAIN q : \A j \in DOMAIN q : i < j => q[i] < q[j]
MissingDays(sid) == {d \in from_date .. to_date : d \notin dates_by_store[sid]}

\* C3: for every store of the coverage calendar analyze_date_gaps returns
\* exactly the days of the window [from, to] that are not in the store's
\* coverage set, each once and in ascending order.
C3_GapsAreWindowMinusCoverage ==
  rpc \in {"gap_group", "gap_grouped"} =>
    /\ DOMAIN gaps_by_store = DOMAIN dates_by_store
    /\ \A sid \in DOMAIN dates_by_store :
         /\ SeqToSet(gaps_by_store[sid]) = MissingDays(sid)
         /\ StrictlyAscending(gaps_by_store[sid])

\* a store with covered days inside and outside the window and two missing days
C3_Witness ==
  /\ rpc = "gap_group"
  /\ \E sid \in Stores :
       /\ Len(gaps_by_store[sid]) >= 2
       /\ dates_by_store[sid] \cap (from_date .. to_date) # {}
       /\ dates_by_store[sid] \ (from_date .. to_date) # {}

\* C4: the ranges grouped from a store's sorted missing dates are maximal
\* contiguous runs: start <= end, ascending, consecutive ranges separated by
\* at least one covered day, and the union of their days is the missing set.
C4_RangesAreMaximalRuns ==
  rpc = "gap_grouped" =>
    LET missing == gaps_by_store[api_store_ids[1]]
    IN  /\ \A i \in DOMAIN ranges : ranges[i][1] <= ranges[i][2]
        /\ \A i \in DOMAIN ranges :
             i < Len(ranges) =>
               /\ ranges[i][2] + 1 < ranges[i + 1][1]
               /\ \E d \in ranges[i][2] + 1 .. ranges[i + 1][1] - 1 :
                    d \in dates_by_store[api_store_ids[1]]
        /\ UNION {ranges[i][1] .. ranges[i][2] : i \in DOMAIN ranges} = SeqToSet(missing)

\* missing dates that fall into two runs, one of them longer than a day
C4_Witness ==
  /\ rpc = "gap_grouped"
  /\ Len(ranges) >= 2
  /\ \E i \in DOMAIN ranges : ranges[i][1] < ranges[i][2]

\* --------------------------------------------------------- C5, C6, C7, C8
Approved == SeqToSet(api_store_ids)

\* the maximal runs of missing days of a store, from the coverage calendar
ExpectedRuns(sid) ==
  LET M == MissingDays(sid)
  IN  {r \in (from_date .. to_date) \X (from_date .. to_date) :
         /\ r[1] <= r[2]
         /\ \A d \in r[1] .. r[2] : d \in M
         /\ (r[1] - 1) \notin M
         /\ (r[2] + 1) \notin M}

CallsFor(sid, r) ==
  {i \in DOMAIN fetchLog :
     /\ fetchLog[i].args.store_id = sid
     /\ Strptime(fetchLog[i].args.from) = r[1]
     /\ Strptime(fetchLog[i].args.to) = r[2]}

Occurrences(q, x) == Cardinality({i \in DOMAIN q : q[i] = x})

\* C5: for every approved store and every contiguous gap range of it
\* fetch_historical_data is invoked exactly once, from the range's first to
\* its last day; no range is split and the ranges of a store are requested in
\* ascending date order.
C5_OneCallPerRange ==
  rpc = "done" =>
    /\ \A sid \in Approved : \A r \in ExpectedRuns(sid) :
         Cardinality(CallsFor(sid, r)) = 1
    /\ \A i \in DOMAIN fetchLog :
         <<Strptime(fetchLog[i].args.from), Strptime(fetchLog[i].args.to)>>
            \in ExpectedRuns(fetchLog[i].args.store_id)
    /\ \A i \in DOMAIN fetchLog : \A j \in DOMAIN fetchLog :
         (i < j /\ fetchLog[i].args.store_id = fetchLog[j].args.store_id)
            => Strptime(fetchLog[i].args.from) < Strptime(fetchLog[j].args.from)

\* C6: a failed range does not abort the backfill: at the end every range of
\* every approved store has been requested, once for each time the store is
\* in the approved list, whatever the outcomes were.
C6_FailureDoesNotAbort ==
  rpc = "done" =>
    \A sid \in Approved : \A r \in ExpectedRuns(sid) :
       Cardinality(CallsFor(sid, r)) = Occurrences(api_store_ids, sid)

\* a failed fetch was followed by the fetch of a further range
C6_Witness ==
  /\ rpc = "done"
  /\ \E i \in DOMAIN fetchLog : i < Len(fetchLog) /\ ~fetchLog[i].ok

\* C7: every range whose fetch failed is named, with its store, in a failure
\* accounting of the run's output.
C7_FailedRangesReported ==
  rpc = "done" =>
    \A i \in DOMAIN fetchLog :
       ~fetchLog[i].ok =>
          \E k \in DOMAIN stdout :
             /\ stdout[k].kind = "Failed"
             /\ stdout[k].store_id = fetchLog[i].args.store_id
             /\ stdout[k].from = fetchLog[i].args.from
             /\ stdout[k].to = fetchLog[i].args.to

MergeKey(rec) == <<rec.store_id, rec.date, rec.size, rec.unit_type>>

\* C8: no two records of the merged set share the key (entity_id, date,
\* size_label, space_type), and of a local and a remote record with the same
\* key only the local one remains.
C8_MergedKeysUnique ==
  rpc = "done" =>
    /\ \A i \in DOMAIN all_records : \A j \in DOMAIN all_records :
         i # j => MergeKey(all_records[i]) # MergeKey(all_records[j])
    /\ \A i \in DOMAIN all_records : \A j \in DOMAIN all_records :
         (all_records[i].source = "API" /\ all_records[j].source = "Database")
            => MergeKey(all_records[i]) # MergeKey(all_records[j])

\* ====================================================== store adjustment
\* lines 1993-2002, in thousandths, in the order of the dict
weightsAllTen ==
  << <<"Location", 10>>, <<"Age", 10>>, <<"Accessibility", 10>>, <<"VPD", 10>>,
     <<"Visibility & Signage", 10>>, <<"Brand", 10>>, <<"Quality", 10>>, <<"Size", 10>> >>

weights ==
  << <<"Location", 10>>, <<"Age", 10>>, <<"Accessibility", 5>>, <<"VPD", 5>>,
     <<"Visibility & Signage", 5>>, <<"Brand", 10>>, <<"Quality", 10>>, <<"Size", 10>> >>

Categories == {weights[i][1] : i \in DOMAIN weights}

\* line 891: the factors asked for by collect_adjustment_factors
factor_names == <<"Captive Market Premium", "Loss to Lease", "CC Adj">>

\* lines 2006-2010
RECURSIVE WeightedLoop(_, _, _, _)
WeightedLoop(store_rankings, subject_rankings, i, total_adj) ==
  IF i > Len(weights) THEN total_adj
  ELSE LET category == weights[i][1]
           weight == weights[i][2]
           comp_rank == DictGet(store_rankings, category, 5)
           subj_rank == DictGet(subject_rankings, category, 5)
           delta == (comp_rank - subj_rank) * weight
       IN  WeightedLoop(store_rankings, subject_rankings, i + 1, total_adj + delta)

\* lines 2013-2014: every value of the dict is added
RECURSIVE FactorLoop(_, _, _)
FactorLoop(factors, names, total_adj) ==
  IF names = {} THEN total_adj
  ELSE LET n == CHOOSE x \in names : TRUE
       IN  FactorLoop(factors, names \ {n}, total_adj + factors[n])

calculate_store_adjustment_ranks_only(store_rankings, subject_rankings, factors) ==
  WeightedLoop(store_rankings, subject_rankings, 1, 0)

\* lines 1967-2016
calculate_store_adjustment(store_rankings, subject_rankings, factors) ==
  FactorLoop(factors, DOMAIN factors,
             WeightedLoop(store_rankings, subject_rankings, 1, 0))

\* a rankings dict: every category 5, except the overridden ones, without
\* the left-out ones
RankDict(over, left_out) ==
  [c \in Categories \ left_out |-> IF c \in DOMAIN over THEN over[c] ELSE 5]

RankValues == {1, 6, 7, 10}
LeftOut == {{}, {"Age"}, {"Brand", "Size"}, Categories}
OneOverride == {[c \in {cat} |-> v] : cat \in Categories, v \in RankValues}
ExampleSubject == [c \in {"Size"} |-> 7]
ExampleComparator == [c \in {"Size", "Brand"} |-> IF c = "Size" THEN 9 ELSE 8]
RankDicts ==
  {RankDict(over, lo) : over \in OneOverride \cup {<<>>, ExampleSubject, ExampleComparator},
                        lo \in LeftOut}

FactorDicts ==
  {[n \in {factor_names[i] : i \in DOMAIN factor_names} |-> 0],
   [n \in {factor_names[i] : i \in DOMAIN factor_names} |->
      IF n = "Captive Market Premium" THEN 20 ELSE 0],
   [n \in {factor_names[i] : i \in DOMAIN factor_names} |->
      IF n = "Loss to Lease" THEN 0 - 15 ELSE 25],
   [n \in {"Captive Market Premium"} |-> 20],
   <<>>}

\* generate_csv2_report is entered with the rankings of the selected stores
\* and the adjustment factors
ScoreInit ==
  /\ spc = "score"
  /\ rankings \in [Stores -> RankDicts]
  /\ adjustment_factors \in FactorDicts
  /\ store_adjustments = <<>>
  /\ self_adjustment = 0

\* lines 2044-2057
StoreAdjustments ==
  /\ spc = "score"
  /\ LET subject_store_id == selected_stores[1]
         subject_rankings == DictGet(rankings, subject_store_id, <<>>)
     IN  store_adjustments' =
           [store_id \in Stores |->
              IF store_id = subject_store_id
                THEN 0
                ELSE calculate_store_adjustment(DictGet(rankings, store_id, <<>>),
                                                subject_rankings, adjustment_factors)]
  /\ spc' = "scored"
  /\ UNCHANGED <<rankings, adjustment_factors, self_adjustment>>
  /\ UNCHANGED nonScoreVars

\* calculate_store_adjustment with the subject's rankings on both sides
SelfAdjustment ==
  /\ spc = "scored"
  /\ LET subject_rankings == DictGet(rankings, selected_stores[1], <<>>)
     IN  self_adjustment' =
           calculate_store_adjustment(subject_rankings, subject_rankings, adjustment_factors)
  /\ spc' = "self"
  /\ UNCHANGED <<rankings, adjustment_factors, store_adjustments>>
  /\ UNCHANGED nonScoreVars

ScoreNext ==
  \/ StoreAdjustments
  \/ SelfAdjustment

ScoreSpecInit == ScoreInit /\ ClientStart /\ RunIdle /\ StagesIdle
ScoreSpec == ScoreSpecInit /\ [][ScoreNext]_vars

\* ------------------------------------------------------------ C9, C10
\* the sum of the flat factors, written out
FlatSum ==
  LET F(n) == IF n \in DOMAIN adjustment_factors THEN adjustment_factors[n] ELSE 0
  IN  F("Captive Market Premium") + F("Loss to Lease") + F("CC Adj")

\* C9 as stated: calculate_store_adjustment with the subject's rankings on
\* both sides yields 0 for every set of flat factors, and the subject's
\* adjustment of the report is 0.
C9_SelfAdjustmentZero ==
  spc = "self" => (self_adjustment = 0 /\ store_adjustments[selected_stores[1]] = 0)

\* C9 amended: with the subject's rankings on both sides the function yields
\* exactly the sum of the flat factors (the rank part is 0); the subject's
\* adjustment of the report is 0.
C9_SelfAdjustmentIsFlatSum ==
  spc = "self" => (self_adjustment = FlatSum /\ store_adjustments[selected_stores[1]] = 0)

\* the subject compared to itself with flat factors that do not sum to 0
C9_Witness ==
  /\ spc = "self"
  /\ FlatSum # 0
  /\ \E c \in DOMAIN rankings[selected_stores[1]] : rankings[selected_stores[1]][c] # 5

\* the rank of a store in a category, 5 when it is missing
RankOr5(sid, c) == IF c \in DOMAIN rankings[sid] THEN rankings[sid][c] ELSE 5
RankDelta(c) == RankOr5(selected_stores[2], c) - RankOr5(selected_stores[1], c)

\* C10: the adjustment of a comparator is the sum over the eight categories
\* of weight x (comparator rank - subject rank), a missing rank taken as 5,
\* plus the sum of the flat factors.
C10_WeightedSum ==
  spc \in {"scored", "self"} =>
    store_adjustments[selected_stores[2]] =
        10 * RankDelta("Location") + 10 * RankDelta("Age")
      + 5 * RankDelta("Accessibility") + 5 * RankDelta("VPD")
      + 5 * RankDelta("Visibility & Signage") + 10 * RankDelta("Brand")
      + 10 * RankDelta("Quality") + 10 * RankDelta("Size")
      + FlatSum

\* the example of the specification: subject all 5 except Size 7, comparator
\* all 5 except Size 9 and Brand 8, one flat factor of 0.02: 0.07
C10_Witness ==
  /\ spc = "scored"
  /\ rankings[selected_stores[1]] = RankDict(ExampleSubject, {})
  /\ rankings[selected_stores[2]] = RankDict(ExampleComparator, {})
  /\ FlatSum = 20
  /\ store_adjustments[selected_stores[2]] = 70

\* ------------------------------------------------------------- C1, C2
\* requests to historicaldata that start in the 3600 seconds from time t on
StartedInHourFrom(t) ==
  Cardinality({j \in DOMAIN requestLog :
                 requestLog[j] >= t /\ requestLog[j] < t + WindowSeconds})

\* C1: no more than _RATE_LIMIT_PER_HOUR requests to historicaldata start
\* within any rolling 3600-second interval of the simulated clock.
C1_RollingHourLimit ==
  \A i \in DOMAIN requestLog :
     StartedInHourFrom(requestLog[i]) <= RATE_LIMIT_PER_HOUR

\* distance of a running call from its return
PosRank(p) == CASE p = "loop" -> 3 [] p = "auth" -> 2 [] p = "post" -> 1 [] OTHER -> 0
CallVariant == IF cpc = "idle" THEN 0 ELSE 3 * (3 - attempt) + PosRank(cpc)

\* C2: with max_retries = 3 a call that meets only transient failures sends
\* at most 3 requests and returns the failure result; every step of a running
\* call brings it nearer to its return (the variant stays >= 0 and decreases),
\* so the call cannot loop for ever.
C2_BoundedRetries ==
  [][ /\ callSent' <= 3
      /\ (cpc' = "idle" /\ callsStarted' > 0 /\ callClean') => result' = None
      /\ CallVariant' >= 0
      /\ (cpc # "idle" /\ <<cpc, attempt>>' # <<cpc, attempt>>)
            => CallVariant' < CallVariant ]_vars

\* a call that met three transient failures has returned the failure result
C2_Witness ==
  /\ cpc = "idle"
  /\ callsStarted > 0
  /\ callClean
  /\ callSent = 3
  /\ result = None

\* ------------------------------------------------------------ C11 - C18
\* C11: at the head of every attempt, a counter that has reached the limit
\* makes the client block until 3600 seconds have passed since the window
\* start and then set the counter to 0 and the window start to the current
\* time; a counter below the limit lets it go on without waiting; a request is
\* sent only with the counter below the limit; the wait leaves the attempt
\* number and the pending result of the call as they are.
C11_WaitBeforeAttempt ==
  [][ /\ (cpc = "loop" /\ cpc' = "auth") =>
           /\ attempt' = attempt
           /\ callSent' = callSent
           /\ result' = result
           /\ IF rate_call_count >= RATE_LIMIT_PER_HOUR
                THEN /\ clock' >= clock
                     /\ clock' - rate_window_start >= 3600
                     /\ (clock' > clock => clock' - rate_window_start = 3600)
                     /\ rate_call_count' = 0
                     /\ rate_window_start' = clock'
                ELSE /\ clock' = clock
                     /\ rate_call_count' = rate_call_count
                     /\ rate_window_start' = rate_window_start
      /\ (cpc' = "post" => rate_call_count' < RATE_LIMIT_PER_HOUR) ]_vars

\* a call that waited for the end of the first window at its first attempt,
\* sent one request when the window ended and returned the data
C11_Witness ==
  /\ cpc = "idle"
  /\ callWaits = 1
  /\ callSent = 1
  /\ attempt = 0
  /\ result = "data"
  /\ rate_window_start = 3600
  /\ requestLog[Len(requestLog)] = 3600

\* C12: an HTTP 429 makes the client sleep until 3600 seconds have passed
\* since the window start, set the counter to 0 and the window start to the
\* current time, and go to the next attempt if one remains (else the call
\* returns the failure result).
C12_Drain429 ==
  [][ (cpc = "post" /\ resp'.status = 429) =>
        /\ clock' >= clock
        /\ clock' - rate_window_start >= 3600
        /\ (clock' > clock => clock' - rate_window_start = 3600)
        /\ rate_call_count' = 0
        /\ rate_window_start' = clock'
        /\ IF attempt + 1 < 3
             THEN cpc' = "loop" /\ attempt' = attempt + 1 /\ result' = result
             ELSE cpc' = "idle" /\ result' = None ]_vars

\* a 429 at the first attempt: the client slept to the end of the first
\* window and is at the head of the second attempt
C12_Witness ==
  /\ cpc = "loop"
  /\ resp.status = 429
  /\ attempt = 1
  /\ rate_call_count = 0
  /\ rate_window_start = 3600
  /\ clock = 3600
  /\ requestLog[Len(requestLog)] < 3600

\* the bodies that hold one of the three texts, whatever the case of letters
TransientBodies == {BodySqlServer, BodyNetworkRelated, BodyTimeout}

\* C13: an HTTP 400 whose body holds "sql server", "network-related" or
\* "timeout" in any case of letters is followed by the next attempt while one
\* remains; any other HTTP 400 ends the call with the failure result.
C13_Transient400 ==
  [][ (cpc = "post" /\ resp'.status = 400) =>
        IF resp'.text \in TransientBodies
          THEN IF attempt + 1 < 3
                 THEN cpc' = "loop" /\ attempt' = attempt + 1 /\ result' = result
                 ELSE cpc' = "idle" /\ result' = None
          ELSE cpc' = "idle" /\ result' = None /\ attempt' = attempt ]_vars

\* a 400 with "SQL Server" in capitals at the first attempt is being retried
C13_Witness ==
  /\ cpc = "loop"
  /\ resp.status = 400
  /\ resp.text = BodySqlServer
  /\ attempt = 1
  /\ callSent = 1

\* C14 as stated: every 4xx answer other than 429 and a 400 with a transient
\* text ends the call at once with the failure result.
C14_Every4xxPermanent ==
  [][ (/\ cpc = "post"
       /\ resp'.status >= 400 /\ resp'.status < 500
       /\ resp'.status # 429
       /\ ~(resp'.status = 400 /\ resp'.text \in TransientBodies)) =>
        (cpc' = "idle" /\ result' = None /\ attempt' = attempt) ]_vars

\* C14 amended: every 4xx answer other than 429, 404 and a 400 with a
\* transient text ends the call at once with the failure result; a 404 is
\* followed by the next attempt while one remains.
C14_4xxPermanentExcept404 ==
  [][ /\ (/\ cpc = "post"
          /\ resp'.status >= 400 /\ resp'.status < 500
          /\ resp'.status \notin {429, 404}
          /\ ~(resp'.status = 400 /\ resp'.text \in TransientBodies)) =>
           (cpc' = "idle" /\ result' = None /\ attempt' = attempt)
      /\ (cpc = "post" /\ resp'.status = 404 /\ attempt + 1 < 3) =>
           (cpc' = "loop" /\ attempt' = attempt + 1) ]_vars

\* a 403 at the first attempt has ended the call
C14_Witness ==
  /\ cpc = "idle"
  /\ resp.status = 403
  /\ attempt = 0
  /\ callSent = 1
  /\ result = None

\* C15: after failed attempt k (attempt + 1) the client waits 2 x k seconds
\* when the failure was a 404 or an exception of the POST, and 5 x k seconds
\* when it was a 500, a 503 or a 400 with a transient text; a 404 at the last
\* attempt returns the failure result and leaves the client, its token and
\* the window as they are for the next call.
C15_ProgressiveBackoff ==
  [][ (cpc = "post" /\ cpc' # "post") =>
        LET k == attempt + 1
            raised == resp' = NoResponse
        IN  /\ (k < 3 /\ (raised \/ resp'.status = 404)) =>
                 (clock' = clock + 2 * k /\ cpc' = "loop" /\ attempt' = k)
            /\ (/\ k < 3
                /\ \/ resp'.status \in {500, 503}
                   \/ resp'.status = 400 /\ resp'.text \in TransientBodies) =>
                 (clock' = clock + 5 * k /\ cpc' = "loop" /\ attempt' = k)
            /\ (k = 3 /\ resp'.status = 404) =>
                 /\ cpc' = "idle"
                 /\ result' = None
                 /\ clock' = clock
                 /\ token' = token
                 /\ rate_window_start' = rate_window_start ]_vars

\* three 404 answers: the requests are 2 and then 4 seconds apart and the
\* call has returned the failure result
C15_Witness ==
  /\ cpc = "idle"
  /\ resp.status = 404
  /\ callSent = 3
  /\ result = None
  /\ Len(requestLog) >= 3
  /\ requestLog[Len(requestLog) - 1] - requestLog[Len(requestLog) - 2] = 2
  /\ requestLog[Len(requestLog)] - requestLog[Len(requestLog) - 1] = 4

\* C16: a cached token is never replaced or dropped, the login endpoint is
\* asked only while no token is cached, and every request sent while a token
\* is cached carries that token.
C16_TokenCached ==
  [][ /\ (token # NoToken => token' = token)
      /\ (loginCount' # loginCount => token = NoToken)
      /\ (Len(requestLog') > Len(requestLog) /\ token # NoToken) => headers = token ]_vars

\* two calls and at least three requests after a refused and a granted login
C16_Witness ==
  /\ cpc = "idle"
  /\ callsStarted = 2
  /\ Len(requestLog) >= 3
  /\ loginCount = 2
  /\ token = <<"Bearer", 2>>
  /\ headers = token

\* C17: when the service rejects a request because of its token (HTTP 401)
\* the client drops the cached token and goes on to another attempt.
C17_RejectedTokenRefreshed ==
  [][ (cpc = "post" /\ resp'.status = 401 /\ attempt = 0) =>
        (token' = NoToken /\ cpc' = "loop") ]_vars

\* C18: the start of a call leaves the counter and the window start as they
\* are; the counter changes only by one per answered request or to 0, and it
\* is set to 0 and the window start is moved (to the current time) only when
\* 3600 seconds have passed since the window start.
C18_SharedLimiter ==
  [][ /\ (callsStarted' # callsStarted) =>
           (rate_call_count' = rate_call_count /\ rate_window_start' = rate_window_start)
      /\ (rate_call_count' # rate_call_count) =>
           \/ /\ rate_call_count' = rate_call_count + 1
              /\ Len(requestLog') = Len(requestLog) + 1
              /\ rate_window_start' = rate_window_start
           \/ /\ rate_call_count' = 0
              /\ rate_window_start' = clock'
              /\ clock' - rate_window_start >= 3600
      /\ (rate_window_start' # rate_window_start) =>
           /\ rate_call_count' = 0
           /\ rate_window_start' = clock'
           /\ clock' - rate_window_start >= 3600 ]_vars

\* the second call starts with the counter the first call left
C18_Witness ==
  /\ callsStarted = 2
  /\ cpc = "loop"
  /\ attempt = 0
  /\ rate_call_count = 1
  /\ Len(requestLog) = 1

\* ------------------------------------------------------------ C19, C20
\* the calendar years that hold a missing day of an approved store
YearsOfApproved ==
  {y \in {2024, 2025} :
     \E sid \in Approved : \E d \in MissingDays(sid) : Strftime(d)[1] = y}

\* C19: the cost put to the user for the stores that were approved is the
\* number of calendar years that hold a missing date of one of them, times
\* the number of distinct stores among them, times the price of a store-year.
C19_CostOfDistinctStores ==
  (rpc \in {"backfill", "fetch", "combine", "done"} /\ api_store_ids # <<>>) =>
     confirm_cost = Cardinality(YearsOfApproved) * Cardinality(Approved) * 1250

\* C20: every record of the combined list, from the database or from the
\* service, has a date inside the window [from_date, to_date].
C20_DatesInsideWindow ==
  rpc = "done" =>
    \A i \in DOMAIN all_records :
       /\ all_records[i].date # EmptyText
       /\ from_date <= Strptime(all_records[i].date)
       /\ Strptime(all_records[i].date) <= to_date

\* ------------------------------------------------------------ C26, C27
\* C26: in every reachable state of a sequential run the call counter lies
\* between 0 and _RATE_LIMIT_PER_HOUR: it is tested before each request, goes
\* up by one after a response and is set to 0 by the rollover and by a 429.
C26_CounterWithinLimit ==
  /\ rate_call_count >= 0
  /\ rate_call_count <= RATE_LIMIT_PER_HOUR

\* the counter is at the limit again after a rollover has set it to 0
C26_Witness ==
  /\ rate_call_count = RATE_LIMIT_PER_HOUR
  /\ callWaits > 0
  /\ cpc = "loop"

\* C27: every request that is started against the endpoint raises the call
\* counter by exactly one, whether it ends in a response of any status or in
\* a transport exception (after a 429 the raised counter is then set to 0).
C27_EveryRequestCounted ==
  [][Len(requestLog') = Len(requestLog) + 1 =>
       \/ rate_call_count' = rate_call_count + 1
       \/ resp'.status = 429 /\ rate_call_count' = 0]_vars

\* ------------------------------------------------------------------ C28
\* C28: fetch_historical_data is invoked only for approved stores; every
\* requested range lies in the window [from, to] and holds only days missing
\* from that store's coverage calendar; with an empty approval (declined or
\* cancelled) no request is made.
C28_OnlyApprovedGaps ==
  /\ \A i \in DOMAIN fetchLog :
       LET a == fetchLog[i].args
           first == Strptime(a.from)
           last == Strptime(a.to)
       IN  /\ \E k \in DOMAIN api_store_ids : api_store_ids[k] = a.store_id
           /\ from_date <= first
           /\ first <= last
           /\ last <= to_date
           /\ \A d \in first .. last : d \notin dates_by_store[a.store_id]
  /\ (rpc # "off" /\ api_store_ids = <<>>) => fetchLog = <<>>

\* a finished run that fetched a range of several days for one store while
\* the other store, which has gaps too, was not approved
C28_Witness ==
  /\ rpc = "done"
  /\ \E i \in DOMAIN fetchLog :
       Strptime(fetchLog[i].args.from) < Strptime(fetchLog[i].args.to)
  /\ \E sid \in Stores : sid \notin Approved /\ MissingDays(sid) # {}

\* ============================================= store metadata and rankings
\* an optional number: Python's None is <<>>, the number v is <<v>>
Absent == <<>>
Present(v) == <<v>>
\* the truth value Python gives an optional number: None and 0 are false
Truthy(x) == x # Absent /\ x[1] # 0

\* line 824, datetime.now().year
current_year == 2026

\* lines 740-771
calculate_age_ranking(year_built, cy) ==
  LET age_years == cy - year_built
  IN  IF age_years < 0 THEN 10
      ELSE IF age_years <= 10 THEN 10
      ELSE IF age_years <= 20 THEN 9
      ELSE IF age_years <= 30 THEN 8
      ELSE IF age_years <= 40 THEN 7
      ELSE IF age_years <= 50 THEN 6
      ELSE IF age_years <= 60 THEN 5
      ELSE IF age_years <= 70 THEN 4
      ELSE IF age_years <= 80 THEN 3
      ELSE IF age_years <= 90 THEN 2
      ELSE 1

\* lines 774-800
calculate_size_ranking(square_footage) ==
  IF square_footage <= 50000 THEN 10
  ELSE IF square_footage <= 60000 THEN 9
  ELSE IF square_footage <= 70000 THEN 8
  ELSE IF square_footage <= 80000 THEN 7
  ELSE IF square_footage <= 90000 THEN 6
  ELSE IF square_footage <= 100000 THEN 5
  ELSE 4

\* line 825
subjective_categories ==
  <<"Location", "Accessibility", "VPD", "Visibility & Signage", "Brand", "Quality">>

\* values of the Salesforce records and of the manual entry (lines 1167-1189:
\* a positive square footage, a year from 1800 on)
SquareFootages == {45000, 120000}
YearsBuilt == {1960, 2020}
\* the rankings typed for the subjective categories of one store
SubjectiveInputs == {[i \in DOMAIN subjective_categories |-> r] : r \in {3, 8}}

\* the format specification ',.0f' (line 848) accepts a number and raises
\* TypeError for None
FormatsAsNumber(x) == x # Absent

\* lines 1235-1239 and the head of the loop of line 1222
StoreLookedUp(sf, year) ==
  /\ kpc = "lookup"
  /\ store_metadata' = store_metadata @@
       (selected_stores[meta_pos] :> [square_footage |-> sf, year_built |-> year])
  /\ IF meta_pos < Len(selected_stores)
       THEN /\ meta_pos' = meta_pos + 1
            /\ UNCHANGED kpc
       ELSE /\ meta_pos' = 1
            /\ kpc' = "rank"
  /\ UNCHANGED <<scoreVars, nonRankVars>>

\* prompt_for_salesforce_match: one of the matches is chosen (lines 1137-1141);
\* a match has both values (line 954)
LookupSelected ==
  \E sf \in SquareFootages : \E year \in YearsBuilt :
     StoreLookedUp(Present(sf), Present(year))

\* prompt_manual_entry (lines 1156-1196): either value may be left out
LookupManual ==
  \E sf \in {Absent} \cup {Present(v) : v \in SquareFootages} :
     \E year \in {Absent} \cup {Present(v) : v \in YearsBuilt} :
        StoreLookedUp(sf, year)

\* the lookup is skipped (lines 1111-1112 and 1145-1148)
LookupSkipped == StoreLookedUp(Absent, Absent)

\* one pass of the loop of collect_store_rankings (lines 828-870)
CollectRankings ==
  /\ kpc = "rank"
  /\ LET store_id == selected_stores[meta_pos]
         store_meta == DictGet(store_metadata, store_id, <<>>)
         year_built == DictGet(store_meta, "year_built", Absent)
         age_ranking == IF Truthy(year_built)
                          THEN calculate_age_ranking(year_built[1], current_year) ELSE 5
         sf == DictGet(store_meta, "square_footage", Absent)
         size_ranking == IF Truthy(sf) THEN calculate_size_ranking(sf[1]) ELSE 7
     IN  IF ~FormatsAsNumber(sf)
           THEN /\ kpc' = "TypeError"
                /\ UNCHANGED <<rankings, meta_pos>>
           ELSE /\ \E typed \in SubjectiveInputs :
                     rankings' = rankings @@
                       (store_id :>
                          [c \in {"Age", "Size"} \cup SeqToSet(subjective_categories) |->
                             IF c = "Age" THEN age_ranking
                             ELSE IF c = "Size" THEN size_ranking
                             ELSE typed[CHOOSE i \in DOMAIN subjective_categories :
                                           subjective_categories[i] = c]])
                /\ IF meta_pos < Len(selected_stores)
                     THEN /\ meta_pos' = meta_pos + 1
                          /\ UNCHANGED kpc
                     ELSE /\ kpc' = "ranked"
                          /\ UNCHANGED meta_pos
  /\ UNCHANGED <<store_metadata, spc, adjustment_factors, store_adjustments, self_adjustment>>
  /\ UNCHANGED nonRankVars

RankNext ==
  \/ LookupSelected
  \/ LookupManual
  \/ LookupSkipped
  \/ CollectRankings

\* main() at line 2559
RankInit ==
  /\ kpc = "lookup"
  /\ store_metadata = <<>>
  /\ meta_pos = 1

RankSpecInit ==
  RankInit /\ ClientStart /\ RunIdle /\ ScoreIdle /\ AdaptIdle /\ ReadIdle /\ ReportIdle
RankSpec == RankSpecInit /\ [][RankNext]_vars

\* ------------------------------------------------------------------ C23
\* C23: when a store's year built or square footage is unavailable (the
\* lookup was skipped and returned none), deriving its rankings completes
\* normally with Age rank 5, respectively Size rank 7; it never yields 0 and
\* never ends in an error.
C23_DefaultsWithoutError ==
  /\ kpc # "TypeError"
  /\ \A sid \in DOMAIN rankings :
       /\ store_metadata[sid].year_built = Absent => rankings[sid]["Age"] = 5
       /\ store_metadata[sid].square_footage = Absent => rankings[sid]["Size"] = 7
       /\ rankings[sid]["Age"] # 0
       /\ rankings[sid]["Size"] # 0

\* ============================================ the prices of the adapters
\* prices of a row or of a price entry; with them every quotient below is a
\* whole number
Prices == {0 - 100, 0, 50, 100, 200}
OptionalPrices == {Absent} \cup {Present(p) : p \in Prices}

\* lines 1667-1670 and, with the same text, lines 1845-1848
pct_difference(regular, online) ==
  IF Truthy(regular) /\ Truthy(online) /\ regular[1] > 0
    THEN Present(((regular[1] - online[1]) * 100) \div regular[1])
    ELSE Absent

\* convert_db_rates_to_records, lines 1841-1848 and 1880-1888: the price
\* fields of the record made of a row
db_price_fields(rate) ==
  LET reg == DictGet(rate, "regular_rate", Absent)
      onl == DictGet(rate, "online_rate", Absent)
  IN  [walk_in_price |-> reg, online_price |-> onl,
       pct_difference |-> pct_difference(reg, onl), source |-> "Database"]

\* parse_api_rate_data, lines 1659-1670 and 1693-1698: the price fields of
\* the record made of a price entry
api_price_fields(price) ==
  LET reg == DictGet(price, "regular", Absent)
      onl == DictGet(price, "online", Absent)
  IN  [walk_in_price |-> reg, online_price |-> onl,
       pct_difference |-> pct_difference(reg, onl), source |-> "API"]

\* a key whose value is None or missing, and a key with a value
WithKey(key, value, keep) == IF keep THEN [k \in {key} |-> value] ELSE <<>>

\* the local adapter converts a row with the two prices
AdaptDbRow ==
  /\ "Database" \in apc
  /\ apc' = apc \ {"Database"}
  /\ adapted' = Append(adapted,
                  db_price_fields([regular_rate |-> regular_rate,
                                   online_rate |-> online_rate]))
  /\ UNCHANGED <<regular_rate, online_rate, nonAdaptVars>>

\* the remote adapter parses a price entry with the two prices; a price that
\* is absent is a key left out of the entry or a key with the value null
AdaptApiPrice ==
  /\ "API" \in apc
  /\ apc' = apc \ {"API"}
  /\ \E keep \in BOOLEAN :
       adapted' = Append(adapted,
                    api_price_fields(
                      WithKey("regular", regular_rate, keep \/ regular_rate # Absent)
                      @@ WithKey("online", online_rate, keep \/ online_rate # Absent)))
  /\ UNCHANGED <<regular_rate, online_rate, nonAdaptVars>>

AdaptNext ==
  \/ AdaptDbRow
  \/ AdaptApiPrice

\* one pair of prices reaches both adapters
AdaptInit ==
  /\ apc = {"Database", "API"}
  /\ regular_rate \in OptionalPrices
  /\ online_rate \in OptionalPrices
  /\ adapted = <<>>

AdaptSpecInit ==
  AdaptInit /\ ClientStart /\ RunIdle /\ ScoreIdle /\ RankIdle /\ ReadIdle /\ ReportIdle
AdaptSpec == AdaptSpecInit /\ [][AdaptNext]_vars

\* ------------------------------------------------------------------ C24
\* C24: in both adapters the percent difference of a record is
\* (regular - online) / regular x 100 exactly when both prices are present
\* (not null) and regular > 0, and null otherwise; a present online price of
\* 0 with regular > 0 gives 100.
C24_PctWhenBothPresent ==
  \A i \in DOMAIN adapted :
     LET rec == adapted[i]
     IN  IF /\ rec.walk_in_price # Absent
            /\ rec.online_price # Absent
            /\ rec.walk_in_price[1] > 0
           THEN rec.pct_difference =
                  Present(((rec.walk_in_price[1] - rec.online_price[1]) * 100)
                             \div rec.walk_in_price[1])
           ELSE rec.pct_difference = Absent

\* ================================================ the local rate reader
\* lines 341-343: the current table, and the table of 2024 when the window
\* starts in 2024 or before
TablesFor(from_year) ==
  IF from_year <= 2024 THEN <<"dbo.Rates", "dbo.Rates_2024">> ELSE <<"dbo.Rates">>

\* "ORDER BY Store_ID, Date_Collected" (line 378) for a set of <<store, day>>
RECURSIVE SortedRows(_)
SortedRows(S) ==
  IF S = {} THEN <<>>
  ELSE LET first == CHOOSE x \in S :
                      \A y \in S : x[1] < y[1] \/ (x[1] = y[1] /\ x[2] <= y[2])
       IN  <<first>> \o SortedRows(S \ {first})

\* the rows a query can select: any rows of the selected stores with a date
\* in the window (lines 371-373)
RowLists == {SortedRows(S) : S \in SUBSET (Stores \X Days)}

\* lines 388-390: the record appended for a row
RateOfRow(row) ==
  [store_id |-> row[1], spacetype |-> "Unit", size |-> "10x10",
   date_collected |-> Strftime(row[2])]

\* lines 384-412: the loop over the fetched rows
RECURSIVE RowLoop(_, _, _, _)
RowLoop(rows, i, rates, dates) ==
  IF i > Len(rows) THEN <<rates, dates>>
  ELSE LET store_id == rows[i][1]
       IN  RowLoop(rows, i + 1,
                   [rates EXCEPT ![store_id] = Append(@, RateOfRow(rows[i]))],
                   [dates EXCEPT ![store_id] = @ \cup {rows[i][2]}])

\* "continue" of line 416 and, for a loop that stops at the first error, "break"
TableAfterErrorBreak(pos) == Len(tables_to_query) + 1
TableAfterError(pos) == pos + 1

\* the for statement of line 345 moves on; after the last table line 418
\* returns the two dicts
ReaderMovesTo(pos) ==
  /\ table_pos' = pos
  /\ dpc' = IF pos > Len(tables_to_query) THEN "returned" ELSE "query"

\* lines 380-412: the query of the table succeeds
QuerySucceeds ==
  /\ dpc = "query"
  /\ LET rows == table_rows[tables_to_query[table_pos]]
         looped == RowLoop(rows, 1, reader_rates, reader_dates)
     IN  /\ reader_rates' = looped[1]
         /\ reader_dates' = looped[2]
  /\ ReaderMovesTo(table_pos + 1)
  /\ UNCHANGED <<tables_to_query, table_rows, failed_tables, nonReadVars>>

\* lines 381-382 raise; lines 414-416
QueryFails ==
  /\ dpc = "query"
  /\ failed_tables' = failed_tables \cup {tables_to_query[table_pos]}
  /\ ReaderMovesTo(TableAfterError(table_pos))
  /\ UNCHANGED <<tables_to_query, table_rows, reader_rates, reader_dates, nonReadVars>>

ReadNext ==
  \/ QuerySucceeds
  \/ QueryFails

\* lines 331-343: the dicts have an entry for every store
ReadInit ==
  /\ dpc = "query"
  /\ tables_to_query \in {TablesFor(y) : y \in {2024, 2025}}
  /\ table_rows \in [SeqToSet(tables_to_query) -> RowLists]
  /\ table_pos = 1
  /\ reader_rates = [sid \in Stores |-> <<>>]
  /\ reader_dates = [sid \in Stores |-> {}]
  /\ failed_tables = {}

ReadSpecInit ==
  ReadInit /\ ClientStart /\ RunIdle /\ ScoreIdle /\ RankIdle /\ AdaptIdle /\ ReportIdle
ReadSpec == ReadSpecInit /\ [][ReadNext]_vars

\* ------------------------------------------------------------------ C25
\* the rows of a store in the tables whose query did not fail, table by table
RECURSIVE RowsOfGoodTables(_, _)
RowsOfGoodTables(sid, i) ==
  IF i > Len(tables_to_query) THEN <<>>
  ELSE LET t == tables_to_query[i]
           own == SelectSeq(table_rows[t], LAMBDA row : row[1] = sid)
       IN  (IF t \in failed_tables THEN <<>> ELSE own) \o RowsOfGoodTables(sid, i + 1)

\* C25: when the query against one rate table fails the reader skips that
\* table and still returns the records and the coverage dates of the other
\* tables, whichever table it was; the failure does not abort the read.
C25_FailedTableSkipped ==
  /\ dpc \in {"query", "returned"}
  /\ dpc = "returned" =>
       /\ table_pos = Len(tables_to_query) + 1
       /\ \A sid \in Stores :
            LET good == RowsOfGoodTables(sid, 1)
            IN  /\ reader_rates[sid] = [k \in DOMAIN good |-> RateOfRow(good[k])]
                /\ reader_dates[sid] = {good[k][2] : k \in DOMAIN good}

\* the query of the first table failed and the rows of the second one, for
\* both stores, were returned
C25_Witness ==
  /\ dpc = "returned"
  /\ failed_tables = {tables_to_query[1]}
  /\ table_rows[tables_to_query[1]] # <<>>
  /\ \A sid \in Stores : reader_rates[sid] # <<>>

\* ====================================================== the summary report
\* number of records handed to the report
MaxRecs == 2

\* texts are sequences of characters
Text_Unit == <<"U", "n", "i", "t">>
Text_Parking == <<"P", "a", "r", "k", "i", "n", "g">>
Size_10x10 == <<"1", "0", "x", "1", "0">>
Size_10X10 == <<"1", "0", " ", "X", " ", "1", "0">>
Size_5x5 == <<"5", "x", "5">>
Size_7x7 == <<"7", "x", "7">>
\* build_tag_string_from_db for a row without flags (lines 1729-1744)
Tag_GroundNonClimate ==
  <<"G", "r", "o", "u", "n", "d", " ", "L", "e", "v", "e", "l", " ", "/", " ",
    "N", "o", "n", "-", "C", "l", "i", "m", "a", "t", "e">>
\* codes typed at the prompt of edit_feature_codes (line 1349)
Code_GNCC == <<"G", "N", "C", "C">>
Code_DU == <<"D", "U">>

\* line 2083
allowed_sizes ==
  {<<"5", "x", "5">>, <<"5", "x", "1", "0">>, <<"1", "0", "x", "5">>,
   <<"1", "0", "x", "1", "0">>, <<"1", "0", "x", "1", "5">>, <<"1", "0", "x", "2", "0">>,
   <<"1", "0", "x", "2", "5">>, <<"1", "0", "x", "3", "0">>}

\* text.strip()
RECURSIVE Strip(_)
Strip(text) ==
  IF text = <<>> THEN text
  ELSE IF Head(text) = " " THEN Strip(Tail(text))
  ELSE IF text[Len(text)] = " " THEN Strip(SubSeq(text, 1, Len(text) - 1))
  ELSE text

\* text.replace(ch, '')
Remove(text, ch) == SelectSeq(text, LAMBDA c : c # ch)

\* line 2095
NormalizedSize(size) == Lower(Remove(Remove(size, " "), "'"))

\* datetime.strptime(text, '%Y-%m-%d') for a text <<year, month, day>>
DateTime(t) == [year |-> t[1], month |-> t[2], day |-> t[3]]

\* a < b for two datetimes
DateLess(a, b) ==
  \/ a.year < b.year
  \/ a.year = b.year /\ a.month < b.month
  \/ a.year = b.year /\ a.month = b.month /\ a.day < b.day

\* dt.replace(day=1) - relativedelta(months=n)
FirstOfMonthMinus(dt, n) ==
  LET total == dt.year * 12 + (dt.month - 1) - n
  IN  [year |-> total \div 12, month |-> (total % 12) + 1, day |-> 1]

\* a record of convert_db_rates_to_records (lines 1855-1887): it has a tag
DbRecord(sid, unit_type, size, date, prices) ==
  [store_id |-> sid, unit_type |-> unit_type, size |-> size,
   tag |-> Tag_GroundNonClimate, date |-> date,
   walk_in_price |-> prices[1], online_price |-> prices[2], source |-> "Database"]

\* a record of parse_api_rate_data (lines 1672-1699): there is no 'tag' key
ApiRecord(sid, unit_type, size, date, prices) ==
  [store_id |-> sid, unit_type |-> unit_type, size |-> size, date |-> date,
   walk_in_price |-> prices[1], online_price |-> prices[2], source |-> "API"]

\* dates of records: the window of main starts on 2024-12-01 (line 2572)
ReportDates == {<<2024, 12, 10>>, <<2025, 6, 30>>, <<2025, 11, 20>>, <<2025, 12, 5>>}
\* walk-in and online price of a record; means of up to six of them are whole
PricePairs ==
  {<<Present(120), Present(60)>>, <<Present(240), Absent>>, <<Present(0), Present(0)>>}

ReportCandidates ==
  {DbRecord(sid, Text_Unit, size, date, prices) :
     sid \in Stores, size \in {Size_10x10, Size_10X10}, date \in ReportDates,
     prices \in PricePairs}
  \cup {ApiRecord(sid, Text_Unit, Size_10x10, date, <<Present(120), Present(60)>>) :
          sid \in Stores, date \in ReportDates \cup {EmptyText}}
  \cup {DbRecord(1, Text_Unit, Size_7x7, <<2025, 12, 5>>, <<Present(120), Present(60)>>),
        DbRecord(1, Text_Unit, Size_5x5, <<2025, 12, 5>>, <<Present(120), Present(60)>>),
        DbRecord(2, Text_Parking, Size_10x10, <<2025, 12, 5>>, <<Present(120), Present(60)>>)}

\* lines 1362-1379
filter_unit_type(recs, unit_type) ==
  SelectSeq(recs, LAMBDA r : Lower(DictGet(r, "unit_type", EmptyText)) = Lower(unit_type))

\* line 1318: the tags that are not empty
unique_tags(recs) ==
  {DictGet(recs[i], "tag", EmptyText) : i \in DOMAIN recs} \ {EmptyText}

\* lines 1400-1416
apply_feature_mapping(recs, feature_mapping) ==
  [i \in DOMAIN recs |->
     LET original_tag == DictGet(recs[i], "tag", EmptyText)
     IN  IF original_tag \in DOMAIN feature_mapping
           THEN [recs[i] EXCEPT !["tag"] = feature_mapping[original_tag]]
           ELSE recs[i]]

\* main(), lines 2661-2680: the records are filtered and the tags are coded
PrepareRecords ==
  /\ gpc = "prepare"
  /\ LET filtered == filter_unit_type(records, Text_Unit)
     IN  IF filtered = <<>>
           THEN /\ gpc' = "done"
                /\ records' = filtered
           ELSE /\ gpc' = "report"
                /\ \E feature_mapping \in [unique_tags(filtered) -> {Code_GNCC, Code_DU}] :
                     records' = apply_feature_mapping(filtered, feature_mapping)
  /\ UNCHANGED <<grouped, csv_rows, nonReportVars>>

\* line 2060: the dates of the records that have one
DatesOf(recs) ==
  {DateTime(recs[i].date) : i \in {k \in DOMAIN recs : DictGet(recs[k], "date", EmptyText) # EmptyText}}

\* line 2065
most_recent(recs) ==
  CHOOSE d \in DatesOf(recs) : \A e \in DatesOf(recs) : ~DateLess(d, e)

\* lines 2068-2071: the starts of T-12, T-6, T-3 and T-1
t_start(recs, n) == FirstOfMonthMinus(most_recent(recs), n - 1)

\* lines 2111-2117: grouped[group_key][store_id].append(item)
StoreInsert(stores, sid, item) ==
  IF \E i \in DOMAIN stores : stores[i].store_id = sid
    THEN LET i == CHOOSE k \in DOMAIN stores : stores[k].store_id = sid
         IN  [stores EXCEPT ![i].rate_records = Append(@, item)]
    ELSE Append(stores, [store_id |-> sid, rate_records |-> <<item>>])

GroupInsert(g, group_key, sid, item) ==
  IF \E i \in DOMAIN g : g[i].key = group_key
    THEN LET i == CHOOSE k \in DOMAIN g : g[k].key = group_key
         IN  [g EXCEPT ![i].stores = StoreInsert(@, sid, item)]
    ELSE Append(g, [key |-> group_key,
                    stores |-> <<[store_id |-> sid, rate_records |-> <<item>>]>>])

\* line 2110: the key of a group holds the size as the record writes it
KeyOfSize(size, tag) == <<size, tag>>

\* lines 2085-2117
RECURSIVE GroupRecordsLoop(_, _, _, _)
GroupRecordsLoop(recs, i, t12_start, g) ==
  IF i > Len(recs) THEN g
  ELSE LET rec == recs[i]
           size == Strip(DictGet(rec, "size", EmptyText))
           tag == DictGet(rec, "tag", EmptyText)
           rec_date_str == DictGet(rec, "date", EmptyText)
           skipped == \/ rec_date_str = EmptyText
                      \/ size = EmptyText
                      \/ tag = EmptyText
                      \/ NormalizedSize(size) \notin allowed_sizes
                      \/ DateLess(DateTime(rec_date_str), t12_start)
       IN  IF skipped
             THEN GroupRecordsLoop(recs, i + 1, t12_start, g)
             ELSE GroupRecordsLoop(recs, i + 1, t12_start,
                    GroupInsert(g, KeyOfSize(size, tag), rec.store_id,
                                [date |-> DateTime(rec_date_str),
                                 walk_in_price |-> DictGet(rec, "walk_in_price", Absent),
                                 online_price |-> DictGet(rec, "online_price", Absent),
                                 store_id |-> rec.store_id]))

\* generate_csv2_report, lines 2059-2117
GroupRecords ==
  /\ gpc = "report"
  /\ IF DatesOf(records) = {}
       THEN /\ gpc' = "done"
            /\ UNCHANGED grouped
       ELSE /\ gpc' = "write"
            /\ grouped' = GroupRecordsLoop(records, 1, t_start(records, 12), <<>>)
  /\ UNCHANGED <<records, csv_rows, nonReportVars>>

\* the value of a decimal digit, and 10 for any other character
DigitValue(c) ==
  CASE c = "0" -> 0 [] c = "1" -> 1 [] c = "2" -> 2 [] c = "3" -> 3 [] c = "4" -> 4
    [] c = "5" -> 5 [] c = "6" -> 6 [] c = "7" -> 7 [] c = "8" -> 8 [] c = "9" -> 9
    [] OTHER -> 10

\* text.split(): the maximal runs of characters other than the blank
RECURSIVE Split(_, _, _)
Split(text, word, acc) ==
  IF text = <<>> THEN (IF word = <<>> THEN acc ELSE Append(acc, word))
  ELSE IF Head(text) = " "
         THEN Split(Tail(text), <<>>, IF word = <<>> THEN acc ELSE Append(acc, word))
         ELSE Split(Tail(text), Append(word, Head(text)), acc)

\* float(part) for a run of digits; anything else raises ValueError
IsNumber(part) == part # <<>> /\ \A i \in DOMAIN part : DigitValue(part[i]) < 10
RECURSIVE ToNumber(_, _)
ToNumber(part, acc) ==
  IF part = <<>> THEN acc ELSE ToNumber(Tail(part), acc * 10 + DigitValue(Head(part)))

\* lines 2120-2128
parse_size(size_str) ==
  LET spaced == [i \in DOMAIN size_str |->
                   IF ToLower(size_str[i]) = "x" THEN " " ELSE ToLower(size_str[i])]
      parts == Split(Remove(spaced, "'"), <<>>, <<>>)
  IN  IF Len(parts) >= 2
        THEN IF IsNumber(parts[1]) /\ IsNumber(parts[2])
               THEN ToNumber(parts[1], 0) * ToNumber(parts[2], 0) ELSE 0
        ELSE IF Len(parts) = 1
               THEN IF IsNumber(parts[1]) THEN ToNumber(parts[1], 0) ELSE 0
               ELSE 0

\* line 2130: sorted() is stable; the groups are in the order of insertion
RECURSIVE SortedGroups(_)
SortedGroups(g) ==
  IF g = <<>> THEN <<>>
  ELSE LET i == CHOOSE k \in DOMAIN g :
                  \A j \in DOMAIN g :
                     \/ parse_size(g[k].key[1]) < parse_size(g[j].key[1])
                     \/ parse_size(g[k].key[1]) = parse_size(g[j].key[1]) /\ k <= j
       IN  <<g[i]>> \o SortedGroups(SubSeq(g, 1, i - 1) \o SubSeq(g, i + 1, Len(g)))

RECURSIVE SumOf(_)
SumOf(q) == IF q = <<>> THEN 0 ELSE Head(q) + SumOf(Tail(q))

\* "sum(prices) / len(prices) if prices else None"
Mean(prices) == IF prices = <<>> THEN Absent ELSE Present(SumOf(prices) \div Len(prices))

\* the prices of a field that pass "if r[field]", and the ones that are not None
TruthyPrices(recs, field) ==
  LET kept == SelectSeq(recs, LAMBDA r : Truthy(r[field]))
  IN  [i \in DOMAIN kept |-> kept[i][field][1]]
NonNullPrices(recs, field) ==
  LET kept == SelectSeq(recs, LAMBDA r : r[field] # Absent)
  IN  [i \in DOMAIN kept |-> kept[i][field][1]]

\* f"${avg:.2f}" if avg else ''
Cell(avg) == IF Truthy(avg) THEN <<"$", avg[1]>> ELSE EmptyText

\* "online_avg * (1 + adjustment_pct) if online_avg else None", the
\* adjustment in thousandths
AdjustedAvg(online_avg, adjustment_pct) ==
  IF Truthy(online_avg)
    THEN Present((online_avg[1] * (1000 + adjustment_pct)) \div 1000) ELSE Absent

\* lines 2155-2166
calc_t_averages(recs, start_date, adjustment_pct) ==
  LET since == SelectSeq(recs, LAMBDA r : ~DateLess(r.date, start_date))
      walk_in_avg == Mean(TruthyPrices(since, "walk_in_price"))
      online_avg == Mean(TruthyPrices(since, "online_price"))
  IN  <<walk_in_avg, online_avg, AdjustedAvg(online_avg, adjustment_pct)>>

Months == 1 .. 12
Periods == {12, 6, 3, 1}

\* lines 2044-2057: the adjustment of a store
AdjustmentOf(store_id) ==
  IF store_id = selected_stores[1] THEN 0
  ELSE calculate_store_adjustment(DictGet(rankings, store_id, <<>>),
                                  DictGet(rankings, selected_stores[1], <<>>),
                                  adjustment_factors)

\* lines 2173-2228: the row of a store in a group
StoreRow(recs, size, tag, entry) ==
  LET rate_records == entry.rate_records
      adjustment_pct == AdjustmentOf(entry.store_id)
      OfMonth(m) == SelectSeq(rate_records, LAMBDA r : r.date.month = m)
      monthly_walk_in == [m \in Months |-> Mean(TruthyPrices(OfMonth(m), "walk_in_price"))]
      monthly_online == [m \in Months |-> Mean(TruthyPrices(OfMonth(m), "online_price"))]
      t == [n \in Periods |-> calc_t_averages(rate_records, t_start(recs, n), adjustment_pct)]
  IN  [kind |-> "store", size |-> size, tag |-> tag, store_id |-> entry.store_id,
       in_store |-> [m \in Months |-> Cell(monthly_walk_in[m])],
       asking_unadj |-> [m \in Months |-> Cell(monthly_online[m])],
       asking_adj |-> [m \in Months |-> Cell(AdjustedAvg(monthly_online[m], adjustment_pct))],
       t_in_store |-> [n \in Periods |-> Cell(t[n][1])],
       t_asking_unadj |-> [n \in Periods |-> Cell(t[n][2])],
       t_asking_adj |-> [n \in Periods |-> Cell(t[n][3])]]

\* lines 2231-2233
RECURSIVE AllRecordsInGroup(_, _)
AllRecordsInGroup(stores, i) ==
  IF i > Len(stores) THEN <<>>
  ELSE stores[i].rate_records \o AllRecordsInGroup(stores, i + 1)

\* lines 2235-2277: the AVERAGE row of a group
AverageRow(recs, size, tag, stores) ==
  LET all_records_in_group == AllRecordsInGroup(stores, 1)
      OfMonth(m) == SelectSeq(all_records_in_group, LAMBDA r : r.date.month = m)
      t == [n \in Periods |-> calc_t_averages(all_records_in_group, t_start(recs, n), 0)]
  IN  [kind |-> "AVERAGE", size |-> size, tag |-> tag, store_id |-> 0,
       in_store |-> [m \in Months |-> Cell(Mean(TruthyPrices(OfMonth(m), "walk_in_price")))],
       asking_unadj |-> [m \in Months |-> Cell(Mean(TruthyPrices(OfMonth(m), "online_price")))],
       asking_adj |-> [m \in Months |-> EmptyText],
       t_in_store |-> [n \in Periods |-> Cell(t[n][1])],
       t_asking_unadj |-> [n \in Periods |-> Cell(t[n][2])],
       t_asking_adj |-> [n \in Periods |-> EmptyText]]

\* lines 2168-2280: the rows of the groups, in the order they are written;
\* the blank row after a group (line 2280) is left out
RECURSIVE RowsOfGroups(_, _, _)
RowsOfGroups(recs, sorted_groups, i) ==
  IF i > Len(sorted_groups) THEN <<>>
  ELSE LET size == sorted_groups[i].key[1]
           tag == sorted_groups[i].key[2]
           stores_in_group == sorted_groups[i].stores
       IN  [k \in DOMAIN stores_in_group |-> StoreRow(recs, size, tag, stores_in_group[k])]
           \o <<AverageRow(recs, size, tag, stores_in_group)>>
           \o RowsOfGroups(recs, sorted_groups, i + 1)

\* generate_csv2_report, lines 2119-2282
WriteRows ==
  /\ gpc = "write"
  /\ csv_rows' = RowsOfGroups(records, SortedGroups(grouped), 1)
  /\ gpc' = "done"
  /\ UNCHANGED <<records, grouped, nonReportVars>>

ReportNext ==
  \/ PrepareRecords
  \/ GroupRecords
  \/ WriteRows

\* main() at line 2650: the combined records, at least one
ReportInit ==
  /\ gpc = "prepare"
  /\ records \in UNION {[1 .. n -> ReportCandidates] : n \in 1 .. MaxRecs}
  /\ grouped = <<>>
  /\ csv_rows = <<>>

ReportSpecInit ==
  ReportInit /\ ClientStart /\ RunIdle /\ ScoreIdle /\ RankIdle /\ AdaptIdle /\ ReadIdle
ReportSpec == ReportSpecInit /\ [][ReportNext]_vars

\* ------------------------------------------------- C21, C22, C29, C30
\* the number of the month of a date, counted from year 0
MonthIndex(d) == d.year * 12 + d.month

\* the dated records handed to the report
DatedRecords == SelectSeq(records, LAMBDA r : DictGet(r, "date", EmptyText) # EmptyText)

\* the month of the most recent record date of the whole dataset
LatestMonthIndex ==
  CHOOSE x \in {MonthIndex(DateTime(DatedRecords[i].date)) : i \in DOMAIN DatedRecords} :
     \A i \in DOMAIN DatedRecords : MonthIndex(DateTime(DatedRecords[i].date)) <= x

\* the records of the window that belong to a row: the row's store, size and tag
RecordsOfRow(row) ==
  SelectSeq(DatedRecords,
            LAMBDA r : /\ r.store_id = row.store_id
                       /\ Strip(r.size) = row.size
                       /\ DictGet(r, "tag", EmptyText) = row.tag)

\* the cell that shows the mean of the prices of a field that are not null
MeanCell(recs, field) ==
  LET prices == NonNullPrices(recs, field)
  IN  IF prices = <<>> THEN EmptyText ELSE <<"$", SumOf(prices) \div Len(prices)>>

\* C21: in a store's row of a (size, tag) group the average of month m is the
\* mean of the non-null prices of all of the store's records of the window
\* whose date falls in month m, an earlier year's occurrence of the month
\* included; no record is left out for being older.
C21_MonthlyMeanOverWindow ==
  gpc = "done" =>
    \A i \in DOMAIN csv_rows :
       csv_rows[i].kind = "store" =>
         \A m \in Months :
            LET own == SelectSeq(RecordsOfRow(csv_rows[i]),
                                 LAMBDA r : DateTime(r.date).month = m)
            IN  /\ csv_rows[i].in_store[m] = MeanCell(own, "walk_in_price")
                /\ csv_rows[i].asking_unadj[m] = MeanCell(own, "online_price")

\* C22: for N in {12, 6, 3, 1} the window T-N starts on the first day of the
\* month of the most recent record date of the whole dataset, minus N - 1
\* months, and the T-N average of a row is the mean of the non-null prices of
\* the row's records dated on or after that start.
C22_TrailingMeans ==
  gpc = "done" =>
    \A i \in DOMAIN csv_rows :
       csv_rows[i].kind = "store" =>
         \A n \in Periods :
            LET own == SelectSeq(RecordsOfRow(csv_rows[i]),
                         LAMBDA r : MonthIndex(DateTime(r.date)) >= LatestMonthIndex - (n - 1))
            IN  /\ csv_rows[i].t_in_store[n] = MeanCell(own, "walk_in_price")
                /\ csv_rows[i].t_asking_unadj[n] = MeanCell(own, "online_price")

\* the records of a store that are of a whitelisted size and dated in T-12
QualifyingRecords(sid) ==
  {i \in DOMAIN records :
     /\ records[i].store_id = sid
     /\ DictGet(records[i], "date", EmptyText) # EmptyText
     /\ Lower(records[i].unit_type) = Lower(Text_Unit)
     /\ NormalizedSize(Strip(records[i].size)) \in allowed_sizes
     /\ MonthIndex(DateTime(records[i].date)) >= LatestMonthIndex - 11}

\* the number of records that the groups hold for a store
RECURSIVE GroupedCount(_, _)
GroupedCount(sid, i) ==
  IF i > Len(grouped) THEN 0
  ELSE Len(SelectSeq(AllRecordsInGroup(grouped[i].stores, 1), LAMBDA r : r.store_id = sid))
       + GroupedCount(sid, i + 1)

\* C29: a record from the remote source with unit type "Unit", a whitelisted
\* size and a date in T-12 contributes to the statistics of a (size, tag)
\* group as a local record does: every such record of a store is held by a
\* group.
C29_RemoteRecordsGrouped ==
  gpc \in {"write", "done"} /\ DatedRecords # <<>> =>
    \A sid \in Stores : GroupedCount(sid, 1) = Cardinality(QualifyingRecords(sid))

\* C30: records of one tag whose sizes normalise to the same whitelist entry
\* ("10x10" and "10 X 10") are in one (size, tag) group, and the report has a
\* single AVERAGE row for a normalised size and tag.
C30_OneGroupPerNormalizedSize ==
  gpc = "done" =>
    /\ \A i \in DOMAIN grouped : \A j \in DOMAIN grouped :
         (/\ grouped[i].key[2] = grouped[j].key[2]
          /\ NormalizedSize(grouped[i].key[1]) = NormalizedSize(grouped[j].key[1]))
            => i = j
    /\ \A i \in DOMAIN csv_rows : \A j \in DOMAIN csv_rows :
         (/\ csv_rows[i].kind = "AVERAGE"
          /\ csv_rows[j].kind = "AVERAGE"
          /\ csv_rows[i].tag = csv_rows[j].tag
          /\ NormalizedSize(csv_rows[i].size) = NormalizedSize(csv_rows[j].size))
            => i = j

====
